---- MODULE Spec2Model ----
(***************************************************************************)
(* Model of the /generate-image handler of app.py: the Runware client      *)
(* (task creation, bounded poll loop), request validation, and the         *)
(* rendering pipeline up to saving the PNG.                                *)
(*                                                                         *)
(* Text is abstracted to word lengths: a title is a sequence of word       *)
(* lengths (in characters), a line is a sequence of words, and the width   *)
(* of a line in a font is (characters, counting one space between words)   *)
(* times the font's per-character advance.                                 *)
(***************************************************************************)
EXTENDS Integers, Sequences, FiniteSets, TLC

VARIABLES
    pc,               \* position in generate_image / RunwareClient
    runware_client,   \* TRUE iff the module-level client was constructed
    has_json,         \* request.json is truthy
    image_prompt,     \* data.get('image_prompt') is truthy
    title,            \* [given, words]
    branding_url,     \* data.get('BrandingURL', '') is non-empty
    style,            \* data.get('Style', 'style1')
    fontEnv,          \* which font files / system fonts / default font load
    staticExists,     \* the static directory exists
    createRequests,   \* POST /tasks sent
    statusRequests,   \* GET /tasks/<uuid> sent
    sleeps,           \* time.sleep(2) calls
    imgDownloads,     \* GET <image url> sent
    i,                \* loop variable of _poll_for_completion
    onlyNon200,       \* every status poll so far answered a non-200 status
    createOutcome,    \* what the task-creation request answered
    error,            \* exception raised (and not swallowed), "" if none
    image_data,       \* bytes returned by the client
    img,              \* the canvas
    font,             \* main title font
    base_font_size,
    max_width,
    wrapped_lines,
    reductions,       \* iterations of the auto-fit loop
    line_heights,
    total_text_height10, \* total_text_height in tenths of a pixel
    top_bar_height,   \* style 3 top bar
    text_y10,         \* text_y in tenths of a pixel
    text_box,         \* style 1 text background box after clamping
    drawn,            \* title lines drawn: text, position, width and font
    peak_height_ratio10,  \* style 5: peak_height_ratio in tenths
    steepness_factor10,   \* style 5: steepness_factor in tenths
    curve_points,     \* style 5: polygon of the curved mask
    peer_pc,          \* a second request of the same process: its position
                      \* around the static directory, "idle" if there is none
    ops,              \* pixel-level operations applied to the canvas, in order
    swallowed,        \* stages whose own try/except logged a failure
    writeAttempts,    \* img.save calls
    saved,            \* the image handed to the PNG encoder and written
    response          \* HTTP outcome of the request

vars == << pc, runware_client, has_json, image_prompt, title, branding_url,
           style, fontEnv, staticExists, createRequests, statusRequests,
           sleeps, imgDownloads, i, onlyNon200, createOutcome, error,
           image_data, img, font, base_font_size, max_width, wrapped_lines,
           reductions, line_heights, total_text_height10, top_bar_height,
           text_y10, text_box, drawn, peak_height_ratio10, steepness_factor10,
           curve_points, peer_pc, ops, swallowed, writeAttempts, saved,
           response >>

reqVars == << runware_client, has_json, image_prompt, title, branding_url,
              style, fontEnv >>
netVars == << createRequests, statusRequests, sleeps, imgDownloads, i,
              onlyNon200, createOutcome, image_data >>
textVars == << font, base_font_size, max_width, wrapped_lines, reductions,
               line_heights, total_text_height10, top_bar_height,
               text_y10, text_box, drawn >>
outVars == << staticExists, writeAttempts, saved >>
curveVars == << peak_height_ratio10, steepness_factor10, curve_points >>
peerVars == << peer_pc >>

----------------------------------------------------------------------------
(* Bounds of the model *)
MaxWords == 7          \* words of a title in the wrap specification
MaxDownloads == 2      \* image downloads one request attempts
MaxRatio10 == 10       \* peak-height ratios of the curve specification, in tenths
MaxSteep10 == 10       \* steepness factors of the curve specification, in tenths

(* Program constants *)
max_polls == 30
TargetW == 1000
TargetH == 1500
target_size == << TargetW, TargetH >>
BaseFontSize == 80
MinFontSize == 30
FontStep == 5
MaxLines == 6
DefaultBitmapSize == 10
\* style 5 curve: height of the dark section, peak_height_ratio 0.6 and
\* steepness_factor 0.3 in tenths, samples along the curve
dark_section_height == 1300
PeakHeightRatio10 == 6
SteepnessFactor10 == 3
num_points == 100

Styles == { "style1", "style2", "style3", "style4", "style5", "other" }

----------------------------------------------------------------------------
(* Images: mode and size are all the model keeps of a raster. *)
NoImage == [ mode |-> "none", size |-> << 0, 0 >> ]
InvalidBytes == [ mode |-> "invalid", size |-> << 0, 0 >> ]
NoBytes == [ mode |-> "nobytes", size |-> << 0, 0 >> ]

BaseImages ==
    { InvalidBytes,
      [ mode |-> "RGB",  size |-> << 1024, 1024 >> ],
      [ mode |-> "RGBA", size |-> << 1000, 1500 >> ],
      [ mode |-> "L",    size |-> << 1020, 1520 >> ] }

Convert(im, m) == [ im EXCEPT !.mode = m ]
Resize(im, sz) == [ im EXCEPT !.size = sz ]
NewImage(m, sz) == [ mode |-> m, size |-> sz ]
\* Image.alpha_composite(a, b): RGBA result of the size of a
AlphaComposite(a, b) == [ mode |-> "RGBA", size |-> a.size ]
\* im.crop((l, t, r, b))
Crop(im, l, t, r, b) == [ im EXCEPT !.size = << r - l, b - t >> ]

----------------------------------------------------------------------------
(* Fonts *)
NoFont == [ kind |-> "none", name |-> "", size |-> 0 ]

main_font_preferences ==
    << "PoetsenOne-Regular.ttf", "LeagueSpartan-Bold.ttf", "Montserrat-Bold.ttf",
       "Lato-Bold.ttf", "OpenSans-Bold.ttf", "Poppins-Bold.ttf",
       "arialbd.ttf", "Arial-Bold.ttf" >>
branding_font_preferences ==
    << "DejaVuSans-Light.ttf", "Calibril.ttf", "seguisli.ttf",
       "LeagueSpartan-Light.ttf", "Montserrat-Light.ttf", "Lato-Light.ttf",
       "OpenSans-Light.ttf", "Poppins-Light.ttf", "arial.ttf" >>
style3_font_preferences ==
    << "Nunito-ExtraBold.ttf", "Montserrat-ExtraBold.ttf", "OpenSans-ExtraBold.ttf",
       "Lato-Bold.ttf", "Poppins-Bold.ttf" >>
style4_font_preferences ==
    << "Vidaloka-Regular.ttf", "Times New Roman Bold.ttf", "Georgia Bold.ttf",
       "PlayfairDisplay-Bold.ttf", "Merriweather-Bold.ttf" >>
style5_font_preferences ==
    << "LeagueSpartan-Bold.ttf", "Montserrat-Bold.ttf", "OpenSans-Bold.ttf",
       "Lato-Bold.ttf", "Arial-Bold.ttf", "arialbd.ttf" >>
style1_font_preferences == << "LeagueSpartan-Bold.ttf", "Montserrat-Bold.ttf" >>
style2_font_preferences == << "EBGaramond-Bold.ttf" >>
common_fallbacks == << "arial.ttf", "Arial.ttf", "DejaVuSans.ttf", "Verdana.ttf" >>

Range(s) == { s[k] : k \in 1..Len(s) }

AllBundled ==
    Range(main_font_preferences) \cup Range(branding_font_preferences)
    \cup Range(style3_font_preferences) \cup Range(style4_font_preferences)
    \cup Range(style5_font_preferences) \cup Range(style2_font_preferences)

\* The font environments the model explores: which files exist under font/,
\* which of them fail to load, which system fonts Pillow finds, how
\* ImageFont.load_default behaves, which families are wide, and what drawing
\* with font=None does when load_default had failed.
FontEnvs ==
    { [ present |-> AllBundled, broken |-> {}, system |-> {},
        default |-> "sized", wide |-> {}, noneDraw |-> "raise" ],
      [ present |-> { "DejaVuSans-Light.ttf" }, broken |-> {}, system |-> {},
        default |-> "error", wide |-> {}, noneDraw |-> "raise" ],
      [ present |-> { "PoetsenOne-Regular.ttf", "Lato-Bold.ttf" },
        broken |-> { "Lato-Bold.ttf" }, system |-> {},
        default |-> "error", wide |-> { "PoetsenOne-Regular.ttf" },
        noneDraw |-> "raise" ],
      [ present |-> { "PoetsenOne-Regular.ttf" },
        broken |-> {}, system |-> {},
        default |-> "error", wide |-> { "PoetsenOne-Regular.ttf" },
        noneDraw |-> "bitmap" ],
      [ present |-> { "arial.ttf" }, broken |-> { "arial.ttf" },
        system |-> { "DejaVuSans.ttf" },
        default |-> "sized", wide |-> { "DejaVuSans.ttf" }, noneDraw |-> "raise" ],
      [ present |-> {}, broken |-> {}, system |-> {},
        default |-> "sized", wide |-> {}, noneDraw |-> "raise" ],
      [ present |-> {}, broken |-> {}, system |-> {},
        default |-> "unsized", wide |-> {}, noneDraw |-> "raise" ],
      [ present |-> {}, broken |-> {}, system |-> {},
        default |-> "error", wide |-> {}, noneDraw |-> "raise" ] }

\* first element of names that is in S, "" if there is none
LastIn(names, S) ==
    IF \E k \in 1..Len(names) : names[k] \in S
    THEN names[CHOOSE k \in 1..Len(names) :
                  /\ names[k] \in S
                  /\ \A j \in (k + 1)..Len(names) : names[j] \notin S]
    ELSE ""
FirstIn(names, S) ==
    IF \E k \in 1..Len(names) : names[k] \in S
    THEN names[CHOOSE k \in 1..Len(names) :
                  /\ names[k] \in S
                  /\ \A j \in 1..(k - 1) : names[j] \notin S]
    ELSE ""

load_bundled_font(font_names, size) ==
    LET b == FirstIn(font_names, fontEnv.present \ fontEnv.broken)
        s == FirstIn(common_fallbacks, fontEnv.system)
    IN  IF b # "" THEN [ kind |-> "truetype", name |-> b, size |-> size ]
        ELSE IF s # "" THEN [ kind |-> "truetype", name |-> s, size |-> size ]
        ELSE IF fontEnv.default = "sized"
             THEN [ kind |-> "default", name |-> "default", size |-> size ]
        ELSE IF fontEnv.default = "unsized"
             THEN [ kind |-> "default", name |-> "default",
                    size |-> DefaultBitmapSize ]
        ELSE NoFont

\* Pillow draws with its default font when font=None; that default is
\* loaded again at that moment and may fail again.
CanMeasure(f) == f # NoFont \/ fontEnv.noneDraw = "bitmap"
EffFont(f) ==
    IF f = NoFont
    THEN [ kind |-> "default", name |-> "default", size |-> DefaultBitmapSize ]
    ELSE f

\* advance of one character, in pixels
CharW(f) ==
    LET g == EffFont(f)
    IN  IF g.name \in fontEnv.wide THEN g.size ELSE g.size \div 2

RECURSIVE SumSeq(_)
SumSeq(s) == IF s = << >> THEN 0 ELSE s[1] + SumSeq(Tail(s))

\* ' '.join(words): characters of the joined line
NumChars(line) == IF line = << >> THEN 0 ELSE SumSeq(line) + Len(line) - 1

\* draw.textlength(line, font=f)
textlength(line, f) == NumChars(line) * CharW(f)

\* draw.textbbox((0,0), line, font=f)[3] - [1]
textheight(line, f) == (EffFont(f).size * 3) \div 4

----------------------------------------------------------------------------
(* wrap_text *)
\* width the greedy loop tests: the current line with the next word added
TestWidthNoWord(current_line, word, f) == textlength(current_line, f)
TestWidth(current_line, word, f) == textlength(Append(current_line, word), f)

\* a line is added to the result only when it holds a word
CloseLineAlways(lines, current_line) == Append(lines, current_line)
CloseLine(lines, current_line) ==
    IF current_line # << >> THEN Append(lines, current_line) ELSE lines

RECURSIVE WrapLoop(_, _, _, _, _)
WrapLoop(words, lines, current_line, f, max_w) ==
    IF words = << >>
    THEN CloseLine(lines, current_line)
    ELSE LET word == Head(words)
         IN  IF TestWidth(current_line, word, f) <= max_w
             THEN WrapLoop(Tail(words), lines, Append(current_line, word), f, max_w)
             ELSE WrapLoop(Tail(words), CloseLine(lines, current_line),
                           << word >>, f, max_w)

wrap_text(text, font_obj, max_w) == WrapLoop(text.words, << >>, << >>, font_obj, max_w)

\* condition of the auto-fit while loop
AutoFitCondLoose(n, size) == n > MaxLines /\ size >= MinFontSize
AutoFitCond(n, size) == n > MaxLines /\ size > MinFontSize

----------------------------------------------------------------------------
(* Style 1 text background box *)
NoBox == [ left |-> 0, top |-> 0, right |-> 0, bottom |-> 0, drawn |-> FALSE ]

(* Titles *)
NoTitle == [ given |-> FALSE, words |-> << >> ]
BlankTitle == [ given |-> TRUE, words |-> << >> ]
WordLens == { 6, 24 }

\* titles of the request handler runs: missing, whitespace only,
\* "Test Image", and seven long words (too many lines at every size)
MainTitles ==
    { NoTitle, BlankTitle,
      [ given |-> TRUE, words |-> << 4, 5 >> ],
      [ given |-> TRUE, words |-> [ k \in 1..7 |-> 24 ] ] }

\* every title of at most MaxWords words
AllTitles ==
    { [ given |-> TRUE, words |-> w ] :
        w \in UNION { [ 1..n -> WordLens ] : n \in 0..MaxWords } }

----------------------------------------------------------------------------
(* Initial state: a request has arrived, nothing has been done for it. *)
InitRest ==
    /\ createRequests = 0 /\ statusRequests = 0 /\ sleeps = 0
    /\ imgDownloads = 0 /\ i = 0 /\ onlyNon200 = TRUE
    /\ createOutcome = "" /\ error = ""
    /\ image_data = NoBytes /\ img = NoImage
    /\ font = NoFont /\ base_font_size = BaseFontSize /\ max_width = 0
    /\ wrapped_lines = << >> /\ reductions = 0
    /\ line_heights = << >> /\ total_text_height10 = 0 /\ top_bar_height = 0
    /\ text_y10 = 0 /\ text_box = NoBox /\ drawn = << >>
    /\ peak_height_ratio10 = PeakHeightRatio10
    /\ steepness_factor10 = SteepnessFactor10 /\ curve_points = << >>
    /\ peer_pc = "idle"
    /\ ops = << >> /\ swallowed = {}
    /\ writeAttempts = 0 /\ saved = NoImage
    /\ response = ""

\* font environment of the runs of the whole handler: every bundled font
DefaultFontEnv ==
    [ present |-> AllBundled, broken |-> {}, system |-> {},
      default |-> "sized", wide |-> {}, noneDraw |-> "raise" ]

Init ==
    /\ pc = "check_client"
    /\ runware_client \in BOOLEAN
    /\ has_json \in BOOLEAN
    /\ image_prompt \in BOOLEAN
    /\ title \in MainTitles
    /\ branding_url \in BOOLEAN
    /\ style \in Styles
    /\ fontEnv = DefaultFontEnv
    /\ staticExists \in BOOLEAN
    /\ InitRest

----------------------------------------------------------------------------
(* Request checks of generate_image *)
Finish(r) == /\ response' = r /\ pc' = "done"

CheckClient ==
    /\ pc = "check_client"
    /\ IF ~runware_client
       THEN Finish("503")
       ELSE pc' = "parse" /\ UNCHANGED response
    /\ UNCHANGED << reqVars, curveVars, peerVars, netVars, textVars, outVars, error, img, ops, swallowed >>

ParseRequest ==
    /\ pc = "parse"
    /\ IF ~has_json
       THEN Finish("400_no_json")
       ELSE pc' = "validate" /\ UNCHANGED response
    /\ UNCHANGED << reqVars, curveVars, peerVars, netVars, textVars, outVars, error, img, ops, swallowed >>

\* which required field the validation reports as missing, "" if none
MissingFieldNoTitleCheck(prompt, t) ==
    IF ~prompt THEN "400_image_prompt" ELSE ""
MissingField(prompt, t) ==
    IF ~prompt THEN "400_image_prompt"
    ELSE IF ~t.given THEN "400_title"
    ELSE ""

Validate ==
    /\ pc = "validate"
    /\ IF MissingField(image_prompt, title) # ""
       THEN Finish(MissingField(image_prompt, title))
       ELSE pc' = "create_task" /\ UNCHANGED response
    /\ UNCHANGED << reqVars, curveVars, peerVars, netVars, textVars, outVars, error, img, ops, swallowed >>

----------------------------------------------------------------------------
(* RunwareClient.generate_image and _poll_for_completion *)
CreateOutcomes ==
    { "net_error", "401", "403", "non200", "bad_json", "no_data",
      "image_url", "no_image_url" }

\* where the client goes after the task-creation response
AfterCreateAlwaysPoll(oc) ==
    IF oc = "image_url" THEN "download" ELSE "poll_top"
AfterCreate(oc) ==
    IF oc = "image_url" THEN "download"
    ELSE IF oc = "no_image_url" THEN "poll_top"
    ELSE "client_raised"

CreateError(oc) ==
    IF oc \in { "image_url", "no_image_url" } THEN "" ELSE oc

CreateTask ==
    /\ pc = "create_task"
    /\ \E oc \in CreateOutcomes :
          /\ createOutcome' = oc
          /\ pc' = AfterCreate(oc)
          /\ error' = CreateError(oc)
    /\ createRequests' = createRequests + 1
    /\ UNCHANGED << reqVars, curveVars, peerVars, statusRequests, sleeps, imgDownloads, i, onlyNon200,
                    image_data, textVars, outVars, img, ops, swallowed, response >>

DownloadOutcomes == { "200", "non200", "net_error" }

\* the image URL came with the task-creation response
Download ==
    /\ pc = "download"
    /\ imgDownloads' = imgDownloads + 1
    /\ \E oc \in DownloadOutcomes :
          IF oc = "200"
          THEN /\ \E b \in BaseImages : image_data' = b
               /\ pc' = "client_returned"
               /\ UNCHANGED error
          ELSE /\ error' = "download_failed"
               /\ pc' = "client_raised"
               /\ UNCHANGED image_data
    /\ UNCHANGED << reqVars, curveVars, peerVars, createRequests, statusRequests, sleeps, i, onlyNon200,
                    createOutcome, textVars, outVars, img, ops, swallowed, response >>

\* head of the for loop, and the wait before every poll but the first
SleepsBeforeFromSecond(k, n) == IF k > 1 THEN n + 1 ELSE n
SleepsBefore(k, n) == IF k > 0 THEN n + 1 ELSE n

\* for i in range(max_polls)
InRangeInclusive(k) == k <= max_polls
InRange(k) == k < max_polls

PollWait ==
    /\ pc = "poll_top"
    /\ InRange(i)
    /\ sleeps' = SleepsBefore(i, sleeps)
    /\ pc' = "poll_get"
    /\ UNCHANGED << reqVars, curveVars, peerVars, createRequests, statusRequests, imgDownloads, i,
                    onlyNon200, createOutcome, image_data, error, textVars,
                    outVars, img, ops, swallowed, response >>

PollTimeout ==
    /\ pc = "poll_top"
    /\ ~InRange(i)
    /\ error' = "timeout"
    /\ pc' = "client_raised"
    /\ UNCHANGED << reqVars, curveVars, peerVars, netVars, textVars, outVars, img, ops, swallowed,
                    response >>

PollOutcomes ==
    { "net_error", "non200", "bad_json", "no_data", "not_a_dict", "pending",
      "completed_url", "completed_no_url", "failed" }

\* outcomes after which the loop goes on to its next iteration
PollContinues(oc) ==
    oc \in { "net_error", "non200", "bad_json", "no_data", "not_a_dict", "pending" }

\* the iteration a poll that goes on continues with
NextIter(k) == k + 1

PollGet ==
    /\ pc = "poll_get"
    /\ statusRequests' = statusRequests + 1
    /\ \E oc \in PollOutcomes :
          /\ oc = "completed_url" => imgDownloads < MaxDownloads
          /\ onlyNon200' = (onlyNon200 /\ oc = "non200")
          /\ IF PollContinues(oc)
             THEN /\ i' = NextIter(i) /\ pc' = "poll_top" /\ UNCHANGED error
             ELSE IF oc = "completed_url"
             THEN /\ pc' = "poll_download" /\ UNCHANGED << i, error >>
             ELSE /\ error' = (IF oc = "failed" THEN "task_failed" ELSE "no_image_url_found")
                  /\ pc' = "client_raised"
                  /\ UNCHANGED i
    /\ UNCHANGED << reqVars, curveVars, peerVars, createRequests, sleeps, imgDownloads, createOutcome,
                    image_data, textVars, outVars, img, ops, swallowed, response >>

\* download of a completed task's image; a failed download is caught by the
\* loop's handlers and the loop goes on
PollDownload ==
    /\ pc = "poll_download"
    /\ imgDownloads' = imgDownloads + 1
    /\ \E oc \in DownloadOutcomes :
          IF oc = "200"
          THEN /\ \E b \in BaseImages : image_data' = b
               /\ pc' = "client_returned"
               /\ UNCHANGED i
          ELSE /\ i' = NextIter(i)
               /\ pc' = "poll_top"
               /\ UNCHANGED image_data
    /\ UNCHANGED << reqVars, curveVars, peerVars, createRequests, statusRequests, sleeps, onlyNon200,
                    createOutcome, error, textVars, outVars, img, ops, swallowed,
                    response >>

\* except branch of the handler around the client call
GenerationFailed ==
    /\ pc = "client_raised"
    /\ Finish("500_generation")
    /\ UNCHANGED << reqVars, curveVars, peerVars, netVars, textVars, outVars, error, img, ops, swallowed >>

----------------------------------------------------------------------------
(* Rendering pipeline of generate_image *)
RenderFail(e) == /\ error' = e /\ pc' = "render_raised"

Max(a, b) == IF a >= b THEN a ELSE b
Min(a, b) == IF a <= b THEN a ELSE b
\* int(x) of a value given in tenths: truncation toward zero
Int10(x10) == IF x10 >= 0 THEN x10 \div 10 ELSE -((-x10) \div 10)

\* Image.open and the conversion to RGB
Decode ==
    /\ pc = "client_returned"
    /\ IF image_data = InvalidBytes
       THEN RenderFail("UnidentifiedImageError") /\ UNCHANGED << img, ops >>
       ELSE /\ img' = (IF image_data.mode # "RGB"
                       THEN Convert(image_data, "RGB") ELSE image_data)
            /\ ops' = Append(ops, "decode")
            /\ pc' = "resize"
            /\ UNCHANGED error
    /\ UNCHANGED << reqVars, curveVars, peerVars, netVars, textVars, outVars, swallowed, response >>

\* the canvas after the resize step
Resized(im) == IF im.size # target_size THEN Resize(im, target_size) ELSE im

ResizeStep ==
    /\ pc = "resize"
    /\ img' = Resized(img)
    /\ ops' = Append(ops, "resize")
    /\ pc' = "enhance"
    /\ UNCHANGED << reqVars, curveVars, peerVars, netVars, textVars, outVars, error, swallowed, response >>

\* colour enhancement and the low-contrast background effect
Enhance ==
    /\ pc = "enhance"
    /\ img' = Convert(AlphaComposite(
                        AlphaComposite(Convert(img, "RGBA"),
                                       NewImage("RGBA", target_size)),
                        NewImage("RGBA", target_size)), "RGB")
    /\ ops' = ops \o << "enhance", "bg_effect" >>
    /\ pc' = "style_bg"
    /\ UNCHANGED << reqVars, curveVars, peerVars, netVars, textVars, outVars, error, swallowed, response >>

\* style 3: height of the top bar from the title wrapped in the style 3 font
Clamp(lo, hi, x) == Max(lo, Min(hi, x))
TopBarHeight(lines, f) ==
    LET total10 == SumSeq([ k \in 1..Len(lines) |-> textheight(lines[k], f) * 12 ])
    IN  Clamp(170, 320, Int10(total10 + 2 * 50 * 10))

\* the canvas after the style's background treatment
StyleCanvas(im, st) ==
    IF st = "style2"
    THEN Convert(Convert(AlphaComposite(Convert(im, "RGBA"),
                                        NewImage("RGBA", target_size)), "RGB"), "RGBA")
    ELSE IF st \in { "style3", "style4" }
    THEN NewImage("RGBA", target_size)
    ELSE IF st = "style5"
    THEN AlphaComposite(NewImage("RGBA", target_size), NewImage("RGBA", target_size))
    ELSE im

\* style 5: the polygon of the curved mask.  dark_section_height is a
\* multiple of 100, so the heights below are exact: CurveY is y * center_x^2.
curve_start_y == TargetH - dark_section_height
center_x == TargetW \div 2
CurveXShifted(k) == ((k + 1) * TargetW) \div num_points
CurveX(k) == (k * TargetW) \div num_points
CurveY(k, ratio10, steep10) ==
    LET peak_y10 == dark_section_height * ratio10
        a100 == (steep10 * peak_y10) \div 100
        dx == CurveX(k) - center_x
    IN  (peak_y10 \div 10 + curve_start_y) * center_x * center_x - a100 * dx * dx
CurvePoints(ratio10, steep10) ==
    << << 0, TargetH * center_x * center_x >> >>
    \o [ k \in 1..(num_points + 1) |->
           << CurveX(k - 1), CurveY(k - 1, ratio10, steep10) >> ]
    \o << << TargetW, TargetH * center_x * center_x >> >>

StyleBackground ==
    /\ pc = "style_bg"
    /\ IF style = "style3"
       THEN LET style3_font == load_bundled_font(style3_font_preferences, base_font_size)
            IN  IF style3_font = NoFont
                THEN \* falls back to the name font, which is not bound yet
                     /\ RenderFail("UnboundLocalError")
                     /\ UNCHANGED << img, ops, top_bar_height >>
                ELSE /\ top_bar_height' =
                          TopBarHeight(wrap_text(title, style3_font, TargetW - 100),
                                       style3_font)
                     /\ img' = StyleCanvas(img, style)
                     /\ ops' = Append(ops, "style_bg")
                     /\ pc' = "load_font"
                     /\ UNCHANGED error
       ELSE /\ img' = StyleCanvas(img, style)
            /\ ops' = (IF style \in { "style2", "style4", "style5" }
                       THEN Append(ops, "style_bg") ELSE ops)
            /\ pc' = "load_font"
            /\ UNCHANGED << error, top_bar_height >>
    /\ curve_points' = (IF style = "style5"
                        THEN CurvePoints(peak_height_ratio10, steepness_factor10)
                        ELSE curve_points)
    /\ UNCHANGED << reqVars, peerVars, peak_height_ratio10, steepness_factor10, netVars,
                    outVars, swallowed, response, font,
                    base_font_size, max_width, wrapped_lines, reductions,
                    line_heights, total_text_height10, text_y10,
                    text_box, drawn >>

MaxWidth(st) == IF st = "style2" THEN TargetW - 160 ELSE TargetW - 120

LoadMainFont ==
    /\ pc = "load_font"
    /\ font' = load_bundled_font(main_font_preferences, base_font_size)
    /\ max_width' = MaxWidth(style)
    /\ pc' = "wrap"
    /\ UNCHANGED << reqVars, curveVars, peerVars, netVars, outVars, swallowed, response, error, img, ops,
                    base_font_size, wrapped_lines, reductions, line_heights,
                    total_text_height10, top_bar_height, text_y10, text_box, drawn >>

\* the initial wrap; a title with words needs a font that can be measured
InitialWrap ==
    /\ pc = "wrap"
    /\ IF title.words # << >> /\ ~CanMeasure(font)
       THEN RenderFail("font_is_None") /\ UNCHANGED wrapped_lines
       ELSE /\ wrapped_lines' = wrap_text(title, font, max_width)
            /\ pc' = "autofit"
            /\ UNCHANGED error
    /\ UNCHANGED << reqVars, curveVars, peerVars, netVars, outVars, swallowed, response, img, ops,
                    font, base_font_size, max_width, reductions, line_heights,
                    total_text_height10, top_bar_height, text_y10, text_box, drawn >>

\* base_font_size -= 5
ReducedSizeTwoSteps(size) == size - 2 * FontStep
ReducedSize(size) == size - FontStep

\* one iteration of the auto-fit while loop
AutoFitReduce ==
    /\ pc = "autofit"
    /\ AutoFitCond(Len(wrapped_lines), base_font_size)
    /\ base_font_size' = ReducedSize(base_font_size)
    /\ font' = load_bundled_font(main_font_preferences, base_font_size')
    /\ wrapped_lines' = wrap_text(title, font', max_width)
    /\ reductions' = reductions + 1
    /\ UNCHANGED << pc, reqVars, curveVars, peerVars, netVars, outVars, swallowed, response, error, img,
                    ops, max_width, line_heights, total_text_height10,
                    top_bar_height, text_y10, text_box, drawn >>

\* the while condition is false: the loop is left
AutoFitExit ==
    /\ pc = "autofit"
    /\ ~AutoFitCond(Len(wrapped_lines), base_font_size)
    /\ pc' = "measure"
    /\ UNCHANGED << reqVars, curveVars, peerVars, netVars, textVars, outVars, swallowed, response, error,
                    img, ops >>

\* line heights and total_text_height; an empty list of lines has no first
\* height
MeasureLines ==
    /\ pc = "measure"
    /\ IF wrapped_lines = << >>
       THEN /\ RenderFail("IndexError")
            /\ UNCHANGED << line_heights, total_text_height10 >>
       ELSE /\ line_heights' =
                  [ k \in 1..Len(wrapped_lines) |-> textheight(wrapped_lines[k], font) ]
            /\ total_text_height10' =
                  SumSeq([ k \in 1..Len(wrapped_lines) |-> line_heights'[k] * 13 ])
                  - line_heights'[1] * (13 - 12)
            /\ pc' = "position"
            /\ UNCHANGED error
    /\ UNCHANGED << reqVars, curveVars, peerVars, netVars, outVars, swallowed, response, img, ops, font,
                    base_font_size, max_width, wrapped_lines, reductions,
                    top_bar_height, text_y10, text_box, drawn >>

\* style 5: text_y for a dark section of the given height, in tenths
title_dark_section_height == 550
Style5TextY10(dark, total10) ==
    LET visible == dark - 100
        y == (TargetH - visible + 40) * 10 + ((visible * 10 - total10) \div 20) * 10
    IN  IF y + total10 > (TargetH - 120) * 10
        THEN (TargetH - 120) * 10 - total10 ELSE y

\* text_y of each style, in tenths of a pixel
TextY10(st, total10, tbh) ==
    IF st = "style3"
    THEN Max(20 * 10, ((tbh * 10 - total10) \div 20) * 10)
    ELSE IF st = "style4"
    THEN (TargetH - 450 + 60) * 10
    ELSE IF st = "style5"
    THEN Style5TextY10(title_dark_section_height, total10)
    ELSE IF 80 * 10 + total10 > (TargetH - 200) * 10
         THEN Max(40 * 10, (TargetH - 200) * 10 - total10)
         ELSE 80 * 10

PositionText ==
    /\ pc = "position"
    /\ text_y10' = TextY10(style, total_text_height10, top_bar_height)
    /\ pc' = "text_box"
    /\ UNCHANGED << reqVars, curveVars, peerVars, netVars, outVars, swallowed, response, error, img, ops,
                    font, base_font_size, max_width, wrapped_lines, reductions,
                    line_heights, total_text_height10, top_bar_height, text_box,
                    drawn >>

\* vertical advance after line k, in tenths
Advance10Uniform(heights, k) == heights[k] * 13
Advance10(heights, k) == heights[k] * (IF k > 1 THEN 13 ELSE 12)

SetMin(S) == CHOOSE x \in S : \A y \in S : x <= y
SetMax(S) == CHOOSE x \in S : \A y \in S : x >= y

\* right edge of the style 1 box: padded, then kept inside the canvas
BoxRightUnclamped(max_x) == max_x + 50
BoxRight(max_x) == Min(TargetW, max_x + 50)

\* style 1: the box around the text block, padded and clamped to the canvas
TextBox(lines, heights, f, y10) ==
    LET n == Len(lines)
        lw(k) == textlength(lines[k], f)
        lx(k) == (TargetW - lw(k)) \div 2
        min_x == SetMin({ TargetW } \cup { lx(k) : k \in 1..n })
        max_x == SetMax({ 0 } \cup { lx(k) + lw(k) : k \in 1..n })
        min_y10 == Min(TargetH * 10, y10)
        max_y10 == Max(0, y10 + SumSeq([ k \in 1..n |-> Advance10(heights, k) ]))
        l == Max(0, min_x - 50)
        t == Max(0, Int10(min_y10 - 35 * 10))
        r == BoxRight(max_x)
        b == Min(TargetH, Int10(max_y10 + 28 * 10))
    IN  [ left |-> l, top |-> t, right |-> r, bottom |-> b,
          drawn |-> (r - l > 0 /\ b - t > 0) ]

TextBackground ==
    /\ pc = "text_box"
    /\ IF style = "style1"
       THEN /\ text_box' = TextBox(wrapped_lines, line_heights, font, text_y10)
            /\ IF text_box'.drawn
               THEN /\ img' = AlphaComposite(Convert(img, "RGBA"),
                                             NewImage("RGBA", img.size))
                    /\ ops' = Append(ops, "text_box")
               ELSE UNCHANGED << img, ops >>
       ELSE UNCHANGED << img, ops, text_box >>
    /\ pc' = "draw_title"
    /\ UNCHANGED << reqVars, curveVars, peerVars, netVars, outVars, swallowed, response, error, font,
                    base_font_size, max_width, wrapped_lines, reductions,
                    line_heights, total_text_height10, top_bar_height, text_y10,
                    drawn >>

\* font a style draws its title with
StylePrefs(st) ==
    IF st = "style2" THEN style2_font_preferences
    ELSE IF st = "style3" THEN style3_font_preferences
    ELSE IF st = "style4" THEN style4_font_preferences
    ELSE IF st = "style5" THEN style5_font_preferences
    ELSE style1_font_preferences

\* int(base_font_size * scale), scale 1.0, 1.0, 1.1, 1.2, 1.05
StyleFontSize(st, size) ==
    IF st \in { "style2", "style3" } THEN size
    ELSE IF st = "style4" THEN (size * 11) \div 10
    ELSE IF st = "style5" THEN (size * 12) \div 10
    ELSE (size * 105) \div 100

CurrentFont(st, size, f) ==
    LET sf == load_bundled_font(StylePrefs(st), StyleFontSize(st, size))
    IN  IF sf # NoFont THEN sf ELSE f

\* margin a style keeps at the sides, 0 if it does not adjust
StyleMargin(st) ==
    IF st = "style3" THEN 50
    ELSE IF st \in { "style2", "style4", "style5" } THEN 40
    ELSE 0

AdjustedLineX(st, lw) ==
    LET x == (TargetW - lw) \div 2
        m == StyleMargin(st)
    IN  IF m > 0 /\ x + lw > TargetW - m THEN Max(m, TargetW - lw - m) ELSE x

RECURSIVE LineY10(_, _, _)
LineY10(heights, y10, k) ==
    IF k = 1 THEN y10 ELSE LineY10(heights, y10, k - 1) + Advance10(heights, k - 1)

DrawTitle ==
    /\ pc = "draw_title"
    /\ LET cf == CurrentFont(style, base_font_size, font)
       IN  drawn' = [ k \in 1..Len(wrapped_lines) |->
                        [ line |-> wrapped_lines[k],
                          x |-> AdjustedLineX(style, textlength(wrapped_lines[k], cf)),
                          y10 |-> LineY10(line_heights, text_y10, k),
                          w |-> textlength(wrapped_lines[k], cf),
                          font |-> cf ] ]
    /\ ops' = ops \o [ k \in 1..Len(wrapped_lines) |-> "title_line" ]
    /\ pc' = "bottom_bar"
    /\ UNCHANGED << reqVars, curveVars, peerVars, netVars, outVars, swallowed, response, error, img, font,
                    base_font_size, max_width, wrapped_lines, reductions,
                    line_heights, total_text_height10, top_bar_height, text_y10,
                    text_box >>

\* the 60 px bar of styles 1 and 2 is drawn for a non-empty branding text
HasBottomBarAnyBranding(st, branding) == st \in { "style1", "style2" }
HasBottomBar(st, branding) == st \in { "style1", "style2" } /\ branding

BottomBar ==
    /\ pc = "bottom_bar"
    /\ ops' = (IF HasBottomBar(style, branding_url)
               THEN Append(ops, "bottom_bar") ELSE ops)
    /\ pc' = "branding"
    /\ UNCHANGED << reqVars, curveVars, peerVars, netVars, textVars, outVars, swallowed, response, error,
                    img >>

\* branding font list and size of the generic branding stage
BrandingPrefs(st) ==
    IF st = "style1" THEN style1_font_preferences
    ELSE IF st = "style2"
    THEN << "EBGaramond-Bold.ttf", "LeagueSpartan-Bold.ttf", "Montserrat-Bold.ttf" >>
    ELSE branding_font_preferences
BrandingSize(st) ==
    IF st = "style1" THEN 36 ELSE IF st = "style2" THEN 38 ELSE 30

\* what the generic branding stage draws, and whether its try block fails
\* (the failure is logged by the stage's own handler)
BrandingDraws(st) ==
    LET bf == load_bundled_font(BrandingPrefs(st), BrandingSize(st))
        s4f == load_bundled_font(style4_font_preferences, 40)
    IN  IF bf = NoFont
        THEN \* the default font fails to load again
             [ ops |-> << >>, fails |-> TRUE ]
        ELSE IF st = "style4"
        THEN \* golden box and text, then branding_y is read unbound
             [ ops |-> (IF CanMeasure(s4f)
                        THEN << "branding_box", "branding_text" >> ELSE << >>),
               fails |-> TRUE ]
        ELSE IF st = "style3"
        THEN \* button_height is read before the button stage binds it
             [ ops |-> << >>, fails |-> TRUE ]
        ELSE [ ops |-> << "branding_text" >>, fails |-> FALSE ]

\* what a failure inside a stage's own try block leads to
AfterStageFailureRaises(stage) ==
    /\ RenderFail("stage_failed")
    /\ UNCHANGED swallowed
AfterStageFailure(stage) ==
    /\ swallowed' = swallowed \cup { stage }
    /\ UNCHANGED error

Branding ==
    /\ pc = "branding"
    /\ IF branding_url
       THEN LET d == BrandingDraws(style)
            IN  /\ ops' = ops \o d.ops
                /\ IF d.fails
                   THEN AfterStageFailure("branding")
                   ELSE UNCHANGED << swallowed, error >>
       ELSE UNCHANGED << ops, swallowed, error >>
    /\ IF error' = error THEN pc' = "button" ELSE TRUE
    /\ UNCHANGED << reqVars, curveVars, peerVars, netVars, textVars, outVars, response, img >>

ButtonPrefs(st) ==
    IF st = "style1" THEN style1_font_preferences
    ELSE IF st = "style2" THEN << "EBGaramond-Bold.ttf", "LeagueSpartan-Bold.ttf" >>
    ELSE style3_font_preferences

\* the "Read More" button of styles 1 to 3
Button ==
    /\ pc = "button"
    /\ IF style \in { "style1", "style2", "style3" }
       THEN LET button_font == load_bundled_font(ButtonPrefs(style), 33)
            IN  IF ~CanMeasure(button_font) \/ img.mode # "RGBA"
                THEN /\ AfterStageFailure("button")
                     /\ UNCHANGED << img, ops >>
                ELSE /\ img' = AlphaComposite(img, NewImage("RGBA", target_size))
                     /\ ops' = ops \o << "button", "button_text" >>
                     /\ UNCHANGED << swallowed, error >>
       ELSE UNCHANGED << img, ops, swallowed, error >>
    /\ IF error' = error THEN pc' = "final" ELSE TRUE
    /\ UNCHANGED << reqVars, curveVars, peerVars, netVars, textVars, outVars, response >>

\* add_rounded_corners: an RGBA image of the same size
add_rounded_corners(image, radius) == NewImage("RGBA", Convert(image, "RGBA").size)

\* style 2: shadow composite on a canvas 20 px larger, cropped back
ShadowCompositeUncropped(im) ==
    NewImage("RGBA", << target_size[1] + 20, target_size[2] + 20 >>)
ShadowComposite(im) ==
    Crop(NewImage("RGBA", << target_size[1] + 20, target_size[2] + 20 >>),
         0, 0, target_size[1], target_size[2])

\* the canvas a style's final touches leave for saving
FinalCanvas(im, st) ==
    IF st = "style2"
    THEN add_rounded_corners(ShadowComposite(Convert(im, "RGBA")), 40)
    ELSE IF st = "style1"
    THEN Convert(add_rounded_corners(Convert(im, "RGBA"), 60), "RGB")
    ELSE IF st = "style3"
    THEN Convert(add_rounded_corners(Convert(im, "RGBA"), 60), "RGB")
    ELSE IF st = "style4"
    THEN Convert(add_rounded_corners(Convert(im, "RGBA"), 30), "RGB")
    ELSE IF st = "style5"
    THEN Convert(add_rounded_corners(Convert(im, "RGBA"), 40), "RGB")
    ELSE im

\* operations the final touches of a style apply before its branding block
FinalOpsShadowLast(st) ==
    IF st = "style2" THEN << "round_40", "shadow" >>
    ELSE IF st = "style1" THEN << "round_60" >>
    ELSE IF st = "style3" THEN << "round_60" >>
    ELSE IF st = "style4" THEN << "round_30" >>
    ELSE IF st = "style5" THEN << "round_40" >>
    ELSE << >>
FinalOps(st) ==
    IF st = "style2" THEN << "shadow", "round_40" >>
    ELSE IF st = "style1" THEN << "round_60" >>
    ELSE IF st = "style3" THEN << "round_60" >>
    ELSE IF st = "style4" THEN << "round_30" >>
    ELSE IF st = "style5" THEN << "round_40" >>
    ELSE << >>

\* branding block of the final touches of styles 3, 4 and 5
FinalBrandingFont(st) ==
    IF st = "style3" THEN load_bundled_font(style3_font_preferences, 60)
    ELSE IF st = "style4" THEN load_bundled_font(style4_font_preferences, 40)
    ELSE load_bundled_font(style5_font_preferences, 40)

FinalBrandingOps(st) ==
    IF st = "style3" THEN << "branding_text" >>
    ELSE << "branding_box", "branding_text" >>

FinalTouches ==
    /\ pc = "final"
    /\ img' = FinalCanvas(img, style)
    /\ IF style \in { "style3", "style4", "style5" } /\ branding_url
       THEN IF CanMeasure(FinalBrandingFont(style))
            THEN /\ ops' = ops \o FinalOps(style) \o FinalBrandingOps(style)
                           \o << "convert_rgb" >>
                 /\ UNCHANGED << swallowed, error >>
            ELSE /\ ops' = ops \o FinalOps(style) \o << "convert_rgb" >>
                 /\ AfterStageFailure("final_branding")
       ELSE /\ ops' = ops \o FinalOps(style)
                      \o (IF style \in { "style1", "style3", "style4", "style5" }
                          THEN << "convert_rgb" >> ELSE << >>)
            /\ UNCHANGED << swallowed, error >>
    /\ IF error' = error THEN pc' = "static_dir" ELSE TRUE
    /\ UNCHANGED << reqVars, curveVars, peerVars, netVars, textVars, outVars, response >>

----------------------------------------------------------------------------
(* Saving *)
\* if not os.path.exists(static_dir)
CheckStaticDir ==
    /\ pc = "static_dir"
    /\ pc' = (IF staticExists THEN "save" ELSE "makedirs")
    /\ UNCHANGED << reqVars, curveVars, peerVars, netVars, textVars, outVars,
                    swallowed, response, error, img, ops >>

\* os.makedirs(static_dir): it raises FileExistsError when the directory has
\* been created since the test, and it may fail for other reasons
MakeStaticDir ==
    /\ pc = "makedirs"
    /\ IF staticExists
       THEN RenderFail("FileExistsError") /\ UNCHANGED staticExists
       ELSE \E ok \in BOOLEAN :
               IF ok
               THEN staticExists' = TRUE /\ pc' = "save" /\ UNCHANGED error
               ELSE RenderFail("makedirs_failed") /\ UNCHANGED staticExists
    /\ UNCHANGED << reqVars, curveVars, peerVars, netVars, textVars, swallowed,
                    response, img, ops, writeAttempts, saved >>

\* the same two steps of a second request running in the same process
PeerCheckStaticDir ==
    /\ peer_pc = "static_dir"
    /\ peer_pc' = (IF staticExists THEN "save" ELSE "makedirs")
    /\ UNCHANGED << pc, reqVars, curveVars, netVars, textVars, outVars,
                    swallowed, response, error, img, ops >>

PeerMakeStaticDir ==
    /\ peer_pc = "makedirs"
    /\ IF staticExists
       THEN peer_pc' = "FileExistsError" /\ UNCHANGED staticExists
       ELSE \E ok \in BOOLEAN :
               IF ok
               THEN staticExists' = TRUE /\ peer_pc' = "save"
               ELSE peer_pc' = "makedirs_failed" /\ UNCHANGED staticExists
    /\ UNCHANGED << pc, reqVars, curveVars, netVars, textVars, swallowed,
                    response, error, img, ops, writeAttempts, saved >>

\* img.save(image_path, format='PNG'); it may fail
Save ==
    /\ pc = "save"
    /\ writeAttempts' = writeAttempts + 1
    /\ \E ok \in BOOLEAN :
          IF ok
          THEN saved' = img /\ pc' = "respond" /\ UNCHANGED error
          ELSE RenderFail("save_failed") /\ UNCHANGED saved
    /\ UNCHANGED << reqVars, curveVars, peerVars, netVars, textVars, swallowed, response, img, ops,
                    staticExists >>

Respond ==
    /\ pc = "respond"
    /\ Finish("200")
    /\ UNCHANGED << reqVars, curveVars, peerVars, netVars, textVars, outVars, error, img, ops, swallowed >>

\* the handler's outer except
ProcessingFailed ==
    /\ pc = "render_raised"
    /\ Finish("500_processing")
    /\ UNCHANGED << reqVars, curveVars, peerVars, netVars, textVars, outVars, error, img, ops, swallowed >>

----------------------------------------------------------------------------
Next ==
    \/ CheckClient \/ ParseRequest \/ Validate
    \/ CreateTask \/ Download \/ PollWait \/ PollTimeout \/ PollGet \/ PollDownload
    \/ GenerationFailed
    \/ Decode \/ ResizeStep \/ Enhance \/ StyleBackground
    \/ LoadMainFont \/ InitialWrap \/ AutoFitReduce \/ AutoFitExit
    \/ MeasureLines \/ PositionText \/ TextBackground \/ DrawTitle
    \/ BottomBar \/ Branding \/ Button \/ FinalTouches
    \/ CheckStaticDir \/ MakeStaticDir \/ Save \/ Respond \/ ProcessingFailed

\* the whole handler, from the arrival of a request
Spec == Init /\ [][Next]_vars

----------------------------------------------------------------------------
(* The poll loop alone: the task was created and its response carried no   *)
(* image URL.                                                              *)
InitPoll ==
    /\ pc = "poll_top"
    /\ runware_client = TRUE /\ has_json = TRUE /\ image_prompt = TRUE
    /\ title \in MainTitles \ { NoTitle }
    /\ branding_url = FALSE
    /\ style = "style1"
    /\ fontEnv = DefaultFontEnv
    /\ staticExists = TRUE
    /\ createRequests = 1 /\ statusRequests = 0 /\ sleeps = 0
    /\ imgDownloads = 0 /\ i = 0 /\ onlyNon200 = TRUE
    /\ createOutcome = "no_image_url" /\ error = ""
    /\ image_data = NoBytes /\ img = NoImage
    /\ font = NoFont /\ base_font_size = BaseFontSize /\ max_width = 0
    /\ wrapped_lines = << >> /\ reductions = 0
    /\ line_heights = << >> /\ total_text_height10 = 0 /\ top_bar_height = 0
    /\ text_y10 = 0 /\ text_box = NoBox /\ drawn = << >>
    /\ peak_height_ratio10 = PeakHeightRatio10
    /\ steepness_factor10 = SteepnessFactor10 /\ curve_points = << >>
    /\ peer_pc = "idle"
    /\ ops = << >> /\ swallowed = {}
    /\ writeAttempts = 0 /\ saved = NoImage
    /\ response = ""

NextPoll == PollWait \/ PollTimeout \/ PollGet \/ PollDownload

\* every step of the loop is a sleep or a request with a timeout, so the
\* loop always takes its next step
SpecPoll == InitPoll /\ [][NextPoll]_vars /\ WF_vars(NextPoll)

----------------------------------------------------------------------------
(* The rendering pipeline alone: the client has returned the bytes of the  *)
(* base image (the URL came with the task-creation response).              *)
InitRender ==
    /\ pc = "client_returned"
    /\ runware_client = TRUE /\ has_json = TRUE /\ image_prompt = TRUE
    /\ title \in MainTitles \ { NoTitle }
    /\ branding_url \in BOOLEAN
    /\ style \in Styles
    /\ fontEnv \in FontEnvs
    /\ staticExists \in BOOLEAN
    /\ createRequests = 1 /\ statusRequests = 0 /\ sleeps = 0
    /\ imgDownloads = 1 /\ i = 0 /\ onlyNon200 = TRUE
    /\ createOutcome = "image_url" /\ error = ""
    /\ image_data \in BaseImages /\ img = NoImage
    /\ font = NoFont /\ base_font_size = BaseFontSize /\ max_width = 0
    /\ wrapped_lines = << >> /\ reductions = 0
    /\ line_heights = << >> /\ total_text_height10 = 0 /\ top_bar_height = 0
    /\ text_y10 = 0 /\ text_box = NoBox /\ drawn = << >>
    /\ peak_height_ratio10 = PeakHeightRatio10
    /\ steepness_factor10 = SteepnessFactor10 /\ curve_points = << >>
    /\ peer_pc = "idle"
    /\ ops = << >> /\ swallowed = {}
    /\ writeAttempts = 0 /\ saved = NoImage
    /\ response = ""

NextRender ==
    \/ Decode \/ ResizeStep \/ Enhance \/ StyleBackground
    \/ LoadMainFont \/ InitialWrap \/ AutoFitReduce \/ AutoFitExit
    \/ MeasureLines \/ PositionText \/ TextBackground \/ DrawTitle
    \/ BottomBar \/ Branding \/ Button \/ FinalTouches
    \/ CheckStaticDir \/ MakeStaticDir \/ Save \/ Respond \/ ProcessingFailed

SpecRender == InitRender /\ [][NextRender]_vars

----------------------------------------------------------------------------
(* Wrapping and auto-fit alone, for every title of at most MaxWords words: *)
(* the state is the one before the main font is loaded (styles 1 and 2,    *)
(* whose maximum widths differ).                                           *)
InitWrap ==
    /\ pc = "load_font"
    /\ runware_client = TRUE /\ has_json = TRUE /\ image_prompt = TRUE
    /\ title \in AllTitles
    /\ branding_url = FALSE
    /\ style \in { "style1", "style2" }
    /\ fontEnv \in FontEnvs
    /\ staticExists = TRUE
    /\ createRequests = 1 /\ statusRequests = 0 /\ sleeps = 0
    /\ imgDownloads = 1 /\ i = 0 /\ onlyNon200 = TRUE
    /\ createOutcome = "image_url" /\ error = ""
    /\ image_data = [ mode |-> "RGB", size |-> << 1024, 1024 >> ]
    /\ img = StyleCanvas(NewImage("RGB", target_size), style)
    /\ font = NoFont /\ base_font_size = BaseFontSize /\ max_width = 0
    /\ wrapped_lines = << >> /\ reductions = 0
    /\ line_heights = << >> /\ total_text_height10 = 0 /\ top_bar_height = 0
    /\ text_y10 = 0 /\ text_box = NoBox /\ drawn = << >>
    /\ peak_height_ratio10 = PeakHeightRatio10
    /\ steepness_factor10 = SteepnessFactor10 /\ curve_points = << >>
    /\ peer_pc = "idle"
    /\ ops = << "decode", "resize", "enhance", "bg_effect" >>
             \o (IF style = "style2" THEN << "style_bg" >> ELSE << >>)
    /\ swallowed = {}
    /\ writeAttempts = 0 /\ saved = NoImage
    /\ response = ""

NextWrap ==
    \/ LoadMainFont \/ InitialWrap \/ AutoFitReduce \/ AutoFitExit \/ MeasureLines

\* the steps are local computations that always run to their end
SpecWrap == InitWrap /\ [][NextWrap]_vars /\ WF_vars(NextWrap)

----------------------------------------------------------------------------
(* Layout of the title alone, for every style and every title of at most   *)
(* MaxWords words: the state is the one after the enhancement step, and the *)
(* run ends when the title has been drawn.                                  *)
InitLayout ==
    /\ pc = "style_bg"
    /\ runware_client = TRUE /\ has_json = TRUE /\ image_prompt = TRUE
    /\ title \in AllTitles
    /\ branding_url = FALSE
    /\ style \in Styles
    /\ fontEnv \in FontEnvs
    /\ staticExists = TRUE
    /\ createRequests = 1 /\ statusRequests = 0 /\ sleeps = 0
    /\ imgDownloads = 1 /\ i = 0 /\ onlyNon200 = TRUE
    /\ createOutcome = "image_url" /\ error = ""
    /\ image_data = [ mode |-> "RGB", size |-> << 1024, 1024 >> ]
    /\ img = NewImage("RGB", target_size)
    /\ font = NoFont /\ base_font_size = BaseFontSize /\ max_width = 0
    /\ wrapped_lines = << >> /\ reductions = 0
    /\ line_heights = << >> /\ total_text_height10 = 0 /\ top_bar_height = 0
    /\ text_y10 = 0 /\ text_box = NoBox /\ drawn = << >>
    /\ peak_height_ratio10 = PeakHeightRatio10
    /\ steepness_factor10 = SteepnessFactor10 /\ curve_points = << >>
    /\ peer_pc = "idle"
    /\ ops = << "decode", "resize", "enhance", "bg_effect" >>
    /\ swallowed = {}
    /\ writeAttempts = 0 /\ saved = NoImage
    /\ response = ""

NextLayout ==
    \/ StyleBackground
    \/ LoadMainFont \/ InitialWrap \/ AutoFitReduce \/ AutoFitExit
    \/ MeasureLines \/ PositionText \/ TextBackground \/ DrawTitle

SpecLayout == InitLayout /\ [][NextLayout]_vars /\ WF_vars(NextLayout)

----------------------------------------------------------------------------
(* The curved mask of style 5 alone, for every peak-height ratio and every *)
(* steepness factor up to the bounds, in tenths.                           *)
InitCurve ==
    /\ pc = "style_bg"
    /\ runware_client = TRUE /\ has_json = TRUE /\ image_prompt = TRUE
    /\ title = [ given |-> TRUE, words |-> << 4, 5 >> ]
    /\ branding_url = FALSE
    /\ style = "style5"
    /\ fontEnv = DefaultFontEnv
    /\ staticExists = TRUE
    /\ createRequests = 1 /\ statusRequests = 0 /\ sleeps = 0
    /\ imgDownloads = 1 /\ i = 0 /\ onlyNon200 = TRUE
    /\ createOutcome = "image_url" /\ error = ""
    /\ image_data = [ mode |-> "RGB", size |-> << 1024, 1024 >> ]
    /\ img = NewImage("RGB", target_size)
    /\ font = NoFont /\ base_font_size = BaseFontSize /\ max_width = 0
    /\ wrapped_lines = << >> /\ reductions = 0
    /\ line_heights = << >> /\ total_text_height10 = 0 /\ top_bar_height = 0
    /\ text_y10 = 0 /\ text_box = NoBox /\ drawn = << >>
    /\ peak_height_ratio10 \in 1..MaxRatio10
    /\ steepness_factor10 \in 0..MaxSteep10
    /\ curve_points = << >>
    /\ peer_pc = "idle"
    /\ ops = << "decode", "resize", "enhance", "bg_effect" >>
    /\ swallowed = {}
    /\ writeAttempts = 0 /\ saved = NoImage
    /\ response = ""

SpecCurve == InitCurve /\ [][StyleBackground]_vars

----------------------------------------------------------------------------
(* Two requests of the same process and the static directory: one request  *)
(* runs its rendering pipeline, a second one has rendered its image and is *)
(* about to test for the directory.                                        *)
InitStatic ==
    /\ pc = "client_returned"
    /\ runware_client = TRUE /\ has_json = TRUE /\ image_prompt = TRUE
    /\ title \in MainTitles \ { NoTitle }
    /\ branding_url \in BOOLEAN
    /\ style \in Styles
    /\ fontEnv = DefaultFontEnv
    /\ staticExists \in BOOLEAN
    /\ createRequests = 1 /\ statusRequests = 0 /\ sleeps = 0
    /\ imgDownloads = 1 /\ i = 0 /\ onlyNon200 = TRUE
    /\ createOutcome = "image_url" /\ error = ""
    /\ image_data \in BaseImages /\ img = NoImage
    /\ font = NoFont /\ base_font_size = BaseFontSize /\ max_width = 0
    /\ wrapped_lines = << >> /\ reductions = 0
    /\ line_heights = << >> /\ total_text_height10 = 0 /\ top_bar_height = 0
    /\ text_y10 = 0 /\ text_box = NoBox /\ drawn = << >>
    /\ peak_height_ratio10 = PeakHeightRatio10
    /\ steepness_factor10 = SteepnessFactor10 /\ curve_points = << >>
    /\ peer_pc = "static_dir"
    /\ ops = << >> /\ swallowed = {}
    /\ writeAttempts = 0 /\ saved = NoImage
    /\ response = ""

NextStatic == NextRender \/ PeerCheckStaticDir \/ PeerMakeStaticDir

SpecStatic == InitStatic /\ [][NextStatic]_vars

----------------------------------------------------------------------------
(* Properties *)
Rejections == { "503", "400_no_json", "400_image_prompt", "400_title" }
LayoutErrors ==
    { "UnidentifiedImageError", "UnboundLocalError", "font_is_None", "IndexError" }
StorageErrors == { "makedirs_failed", "FileExistsError", "save_failed" }
NoWorkDone ==
    /\ createRequests = 0 /\ statusRequests = 0 /\ imgDownloads = 0
    /\ img = NoImage /\ ops = << >>
    /\ writeAttempts = 0 /\ saved = NoImage
NothingRendered ==
    /\ img = NoImage /\ ops = << >> /\ writeAttempts = 0 /\ saved = NoImage

\* C1: whatever the style, the image handed to the PNG encoder is in RGB
\* mode (the claim as stated; style 2 leaves the canvas RGBA)
C1_SavedIsRGB == saved # NoImage => saved.mode = "RGB"

\* C2: the canvas is 1000x1500 from the resize step on, for every style and
\* every base-image size, and so is the image that is saved; the 1020x1520
\* composite of style 2 never outlives its stage
C2_CanvasSize ==
    /\ (img # NoImage /\ pc \notin { "resize", "render_raised", "done" })
          => img.size = << 1000, 1500 >>
    /\ saved # NoImage => saved.size = << 1000, 1500 >>
C2_Witness ==
    /\ saved # NoImage /\ style = "style2"
    /\ image_data.size = << 1020, 1520 >>

\* C3: a request without a configured client, without a JSON body, or
\* without image_prompt or title is answered with its rejection and never
\* reaches the collaborator, a rendering stage or a file write
C3_RejectedBeforeWork ==
    /\ (~runware_client \/ ~has_json \/ ~image_prompt \/ ~title.given)
          => /\ NoWorkDone
             /\ pc = "done" => response \in Rejections
    /\ response \in Rejections => NoWorkDone
    /\ (pc = "done" /\ ~runware_client) => response = "503"
    /\ (pc = "done" /\ runware_client /\ ~has_json) => response = "400_no_json"
C3_Witness ==
    /\ pc = "done" /\ response = "400_title"
    /\ runware_client /\ has_json /\ image_prompt /\ ~title.given

\* C4: no image URL in the task-creation response and only non-200 status
\* polls: the request ends after exactly 30 status requests with the
\* timeout error, a failure response and nothing rendered or written
C4_PollTimeout ==
    (createOutcome = "no_image_url" /\ onlyNon200)
       => /\ NothingRendered
          /\ pc \in { "client_raised", "done" }
                => (statusRequests = 30 /\ error = "timeout")
          /\ pc = "done" => response = "500_generation"
C4_Witness ==
    /\ pc = "done" /\ createOutcome = "no_image_url" /\ onlyNon200
    /\ statusRequests = 30 /\ response = "500_generation"

\* C5: the poll loop ends after at most 30 status requests, returning bytes
\* or raising, and every status request but the first is preceded by a wait
C5_PollBounded ==
    /\ [](/\ statusRequests <= 30
          /\ sleeps = (IF pc = "poll_get" THEN i
                       ELSE IF statusRequests = 0 THEN 0 ELSE statusRequests - 1)
          /\ pc = "client_returned" => image_data # NoBytes
          /\ pc = "client_raised" => error # "")
    /\ <>(pc \in { "client_returned", "client_raised" })
C5_Witness ==
    /\ pc = "client_returned" /\ statusRequests = 30 /\ sleeps = 29
    /\ ~onlyNon200 /\ imgDownloads = 2

C7_FallbackTried ==
    (pc = "done" /\ error \in StorageErrors)
       => writeAttempts = (IF error = "save_failed" THEN 2 ELSE 1)

\* C8: the task-creation request is sent once; a 401/403, another non-200
\* status or a body without data raises without any status poll, and the
\* request ends with the generation-failure response, nothing rendered or
\* written
C8_CreateOnce ==
    /\ createRequests <= 1
    /\ (pc = "done" /\ response \notin Rejections) => createRequests = 1
    /\ createOutcome \in { "401", "403", "non200", "no_data" }
          => /\ statusRequests = 0 /\ sleeps = 0 /\ imgDownloads = 0
             /\ NothingRendered
             /\ pc = "done" => response = "500_generation"
C8_Witness ==
    /\ pc = "done" /\ createOutcome = "403" /\ createRequests = 1
    /\ response = "500_generation"

\* C9: the auto-fit loop reduces the font size at most 10 times, from 80 in
\* steps of 5, never below 30, and is always left
C9_AutoFitBounded ==
    /\ [](/\ reductions <= 10
          /\ base_font_size >= 30
          /\ base_font_size = 80 - 5 * reductions)
    /\ <>(pc \in { "position", "render_raised" })
C9_Witness ==
    /\ pc = "measure" /\ reductions = 10 /\ base_font_size = 30
    /\ Len(wrapped_lines) > 6

\* C10: no wrapped line is wider than the maximum width in the font it was
\* wrapped with, unless it is a single word
C10_LinesFit ==
    \A k \in 1..Len(wrapped_lines) :
        \/ textlength(wrapped_lines[k], font) <= max_width
        \/ Len(wrapped_lines[k]) = 1
C10_Witness ==
    /\ pc = "autofit"
    /\ \E k \in 1..Len(wrapped_lines) :
          /\ Len(wrapped_lines[k]) = 1
          /\ textlength(wrapped_lines[k], font) > max_width
    /\ \E k \in 1..Len(wrapped_lines) :
          /\ Len(wrapped_lines[k]) >= 2
          /\ textlength(wrapped_lines[k] \o << 6 >>, font) > max_width


----------------------------------------------------------------------------
RoundOps == { "round_30", "round_40", "round_60" }
OpsAt(S) == { k \in 1..Len(ops) : ops[k] \in S }
FinalBranding == style \in { "style3", "style4", "style5" } /\ branding_url

C12_RoundedOnce ==
    saved # NoImage =>
       /\ Cardinality(OpsAt(RoundOps)) = 1
       /\ style \in { "style1", "style3" } => OpsAt({ "round_60" }) # {}
       /\ style \in { "style2", "style5" } => OpsAt({ "round_40" }) # {}
       /\ style = "style4" => OpsAt({ "round_30" }) # {}

\* C13: for styles 1 and 2 the 60 px bottom bar is drawn exactly when the
\* branding text is not empty, and with an empty branding text style 1
\* draws neither the bar nor a branding text
BarStageDone ==
    pc \in { "branding", "button", "final", "static_dir", "makedirs", "save",
             "respond" }
C13_BarIffBranding ==
    /\ OpsAt({ "bottom_bar" }) # {} => style \in { "style1", "style2" } /\ branding_url
    /\ BarStageDone /\ style \in { "style1", "style2" } /\ branding_url
          => Cardinality(OpsAt({ "bottom_bar" })) = 1
    /\ style = "style1" /\ ~branding_url
          => OpsAt({ "bottom_bar", "branding_text", "branding_box" }) = {}
C13_Witness ==
    /\ saved # NoImage /\ style = "style1" /\ ~branding_url
    /\ OpsAt({ "title_line" }) # {}


\* C14: the style 1 text box, after padding and clamping, lies inside the
\* 1000 x 1500 canvas, and it is drawn only when its clamped width and
\* height are both positive
C14_BoxInsideCanvas ==
    /\ text_box # NoBox =>
          /\ 0 <= text_box.left /\ 0 <= text_box.top
          /\ text_box.right <= 1000 /\ text_box.bottom <= 1500
    /\ OpsAt({ "text_box" }) # {} =>
          /\ style = "style1" /\ text_box # NoBox
          /\ text_box.right - text_box.left > 0
          /\ text_box.bottom - text_box.top > 0
C14_Witness ==
    /\ OpsAt({ "text_box" }) # {}
    /\ text_box.left = 0 /\ text_box.right = 1000
    /\ \E k \in 1..Len(wrapped_lines) : textlength(wrapped_lines[k], font) > 1000


\* C15: load_bundled_font always returns a font object, never a null
\* value: once the main font has been loaded, the handler holds a font
\* (the claim as stated; the function returns None when the built-in
\* default cannot be loaded either)
C15_FontNeverNone ==
    pc \in { "wrap", "autofit", "measure", "position", "text_box", "draw_title" }
       => font # NoFont


\* C17: the sampled parabola of the style 5 mask is symmetric about the
\* centre of the canvas: for every sample k of 0..100 the curve height at
\* sample k equals the height at sample 100 - k, whatever the peak-height
\* ratio and the steepness factor; the polygon starts at the bottom-left
\* corner of the canvas and ends at the bottom-right corner
C17_CurveSymmetric ==
    curve_points # << >> =>
       /\ Len(curve_points) = 103
       /\ \A k \in 0..100 : curve_points[k + 2][2] = curve_points[(100 - k) + 2][2]
       /\ curve_points[1] = << 0, 1500 * center_x * center_x >>
       /\ curve_points[103] = << 1000, 1500 * center_x * center_x >>
C17_Witness ==
    /\ curve_points # << >>
    /\ steepness_factor10 = MaxSteep10 /\ peak_height_ratio10 = 1
    /\ curve_points[2][2] < curve_points[52][2]
    /\ curve_points[2][1] = 0 /\ curve_points[102][1] = 1000

\* C18: for styles 4 and 5 with a non-empty branding text, the generic
\* branding stage draws nothing, and the saved image has had the branding
\* box drawn once and the branding text drawn once, right after the box
\* (the claim as stated; the generic stage draws for both styles)
C18_BrandingOnce ==
    style \in { "style4", "style5" } /\ branding_url =>
       /\ pc \in { "button", "final" } =>
             OpsAt({ "branding_box", "branding_text" }) = {}
       /\ saved # NoImage =>
             /\ Cardinality(OpsAt({ "branding_box" })) = 1
             /\ Cardinality(OpsAt({ "branding_text" })) = 1
             /\ \A k \in OpsAt({ "branding_box" }) : ops[k + 1] = "branding_text"

\* C19: every drawn title line keeps the margin of its style on both
\* sides, 50 px for style 3 and 40 px otherwise: x >= margin and
\* x + width <= 1000 - margin, the width being measured in the font the
\* line is drawn with (the claim as stated)
C19_Margins ==
    \A k \in 1..Len(drawn) :
       LET m == IF style = "style3" THEN 50 ELSE 40
       IN  drawn[k].x >= m /\ drawn[k].x + drawn[k].w <= 1000 - m

\* C20: the auto-fit loop ends at the first size of 80, 75, ..., 30 at
\* which the wrapped title has at most 6 lines, or at 30 when there is
\* none; the style 1 text box and the title lines are drawn only after
\* the loop has ended, and the lines drawn are those of the last wrap
FitSizes == { 80 - 5 * n : n \in 0..10 }
LinesAt(size) ==
    Len(wrap_text(title, load_bundled_font(main_font_preferences, size), max_width))
AutoFitDone ==
    pc \in { "measure", "position", "text_box", "draw_title", "bottom_bar" }
C20_AutoFitFirstFit ==
    /\ AutoFitDone =>
          /\ base_font_size \in FitSizes
          /\ LinesAt(base_font_size) <= 6 \/ base_font_size = 30
          /\ \A s \in FitSizes : s > base_font_size => LinesAt(s) > 6
          /\ wrapped_lines =
                wrap_text(title, load_bundled_font(main_font_preferences,
                                                   base_font_size), max_width)
    /\ OpsAt({ "text_box", "title_line" }) # {} \/ drawn # << >> => AutoFitDone
    /\ pc = "bottom_bar" =>
          /\ Len(drawn) = Len(wrapped_lines)
          /\ Cardinality(OpsAt({ "title_line" })) = Len(wrapped_lines)
          /\ \A k \in 1..Len(drawn) : drawn[k].line = wrapped_lines[k]
C20_Witness ==
    /\ pc = "bottom_bar" /\ Len(drawn) = 6
    /\ base_font_size < 80 /\ base_font_size > 30
    /\ LinesAt(base_font_size + 5) > 6


\* C21: wrap_text is the greedy first-fit partition of the words: the
\* lines, concatenated, are the words of the title in their order, no line
\* is empty, and at every line break the first word of the next line,
\* joined by one space to the line before it, does not fit the width
RECURSIVE Flatten(_)
Flatten(lines) == IF lines = << >> THEN << >> ELSE Head(lines) \o Flatten(Tail(lines))
WrapDone == pc \in { "autofit", "measure", "position" }
C21_GreedyPartition ==
    WrapDone =>
       /\ Flatten(wrapped_lines) = title.words
       /\ \A k \in 1..Len(wrapped_lines) : wrapped_lines[k] # << >>
       /\ \A k \in 1..(Len(wrapped_lines) - 1) :
             textlength(Append(wrapped_lines[k], Head(wrapped_lines[k + 1])), font)
                > max_width
C21_Witness ==
    /\ pc = "measure" /\ Len(wrapped_lines) >= 3
    /\ \E k \in 1..Len(wrapped_lines) : Len(wrapped_lines[k]) >= 2
    /\ \E k \in 1..Len(wrapped_lines) : textlength(wrapped_lines[k], font) > max_width


\* C22: load_bundled_font returns the first name of the given list that
\* is a bundled file and loads, skipping missing and failing files; a
\* system font, the first of the fixed list that loads, is returned only
\* when no bundled candidate loaded, and the built-in default only when
\* no system font loaded either
PreferenceLists ==
    { main_font_preferences, branding_font_preferences, style1_font_preferences,
      style2_font_preferences, style3_font_preferences, style4_font_preferences,
      style5_font_preferences }
IsFirstOf(name, names, S) ==
    \E k \in 1..Len(names) :
       /\ names[k] = name /\ name \in S
       /\ \A j \in 1..(k - 1) : names[j] \notin S
C22_FontOrder ==
    \A prefs \in PreferenceLists :
       LET f == load_bundled_font(prefs, base_font_size)
           loads == fontEnv.present \ fontEnv.broken
           bundled == Range(prefs) \cap loads # {}
           system == Range(common_fallbacks) \cap fontEnv.system # {}
       IN  /\ bundled => f.kind = "truetype" /\ IsFirstOf(f.name, prefs, loads)
           /\ ~bundled /\ system =>
                 f.kind = "truetype" /\ IsFirstOf(f.name, common_fallbacks, fontEnv.system)
           /\ ~bundled /\ ~system => f.kind # "truetype"
           /\ prefs = main_font_preferences /\ WrapDone => font = f
C22_Witness ==
    /\ pc = "autofit" /\ font.kind = "truetype" /\ font.name = "DejaVuSans.ttf"
    /\ "arial.ttf" \in fontEnv.present \cap fontEnv.broken
    /\ load_bundled_font(branding_font_preferences, 30).name = "DejaVuSans.ttf"


\* C23: for style 4 the title block lies inside the bottom dark
\* rectangle, from y = 1050 to y = 1500: text_y >= 1050 and
\* text_y + total_text_height <= 1500 (the claim as stated; text_y is
\* fixed at 1110 whatever the height of the block)
PositionDone == pc \in { "text_box", "draw_title", "bottom_bar" }
C23_Style4TitleInRect ==
    style = "style4" /\ PositionDone =>
       /\ text_y10 >= 1050 * 10
       /\ text_y10 + total_text_height10 <= 1500 * 10

\* C24: for style 3 the top bar is between 170 and 320 px high and the
\* title block as laid out after auto-fit lies inside it: text_y >= 0 and
\* text_y + total_text_height <= top_bar_height (the claim as stated; the
\* bar is capped at 320 px and the block is not)
C24_Style3TitleInBar ==
    style = "style3" /\ PositionDone =>
       /\ 170 <= top_bar_height /\ top_bar_height <= 320
       /\ text_y10 >= 0
       /\ text_y10 + total_text_height10 <= top_bar_height * 10


\* C25: a title that passed validation wraps to at least one line, so a
\* request that has asked for its base image never fails in layout on an
\* empty list of lines (the claim as stated; a title of whitespace alone
\* passes validation and wraps to no line)
C25_TitleHasLine ==
    /\ WrapDone => wrapped_lines # << >>
    /\ createRequests > 0 => error # "IndexError"


\* C26: once a status response reports the task completed, polling
\* stops: the step after it either returns the image bytes or raises, and
\* the loop does not go back to ask for the status again (the claim as
\* stated; a failed download is logged and the loop goes on)
C26_CompletedEndsPolling ==
    [][pc = "poll_download" => pc' \in { "client_returned", "client_raised" }]_vars


\* C27: for any interleaving of two requests of the same process, neither
\* fails because of the shared static directory: testing for the
\* directory and then creating it is safe when both find it missing (the
\* claim as stated; the request that creates second gets FileExistsError)
C27_NoDirectoryRace ==
    error # "FileExistsError" /\ peer_pc # "FileExistsError"


\* C28: every title line is drawn with the font, and at the size, the
\* title was wrapped and measured with, so a line that measured at most
\* the maximum content width when wrapped measures at most that width
\* when drawn (the claim as stated; each style reloads its own font, at a
\* scaled size, for drawing)
C28_DrawFontIsWrapFont ==
    \A k \in 1..Len(drawn) :
       /\ drawn[k].font = font
       /\ textlength(drawn[k].line, font) <= max_width => drawn[k].w <= max_width

C30_DarkSectionMatches ==
    style = "style5" /\ PositionDone =>
       /\ title_dark_section_height = dark_section_height
       /\ text_y10 = Style5TextY10(dark_section_height, total_text_height10)

====
